---- MODULE Spec2Model ----
(***************************************************************************)
(* Workflow builder: the node map, its mutation operations (addNode,       *)
(* deleteNode, updateLabel, addBranchPath) and the linear undo/redo        *)
(* history of src/src/App.tsx, with the helpers of src/src/utils/workflow.ts.*)
(*                                                                         *)
(* Sequences are 1-based here, arrays 0-based in the source: an index i of *)
(* the source is i + 1 in this module, except historyIndex, which is kept  *)
(* 0-based as in the source (history[historyIndex + 1] is the entry).      *)
(***************************************************************************)
EXTENDS Integers, Sequences, FiniteSets, TLC

\* ------------------------------------------------------------------ bounds
\* highest numeric suffix nextId may hand out
MaxId == 8
\* longest history sequence a commit may produce, in a session that started
\* from the default graph
MaxHist == 3
\* the same, in a session that started from the stored graph
MaxHistStored == 2
\* most stored edges a branch may have for addBranchPath to be tried
MaxEdges == 3
\* longest history sequence a commit may produce, in a session that only
\* inserts at the root and deletes
MaxHistRoot == 4
\* longest edge sequence handed to ensureBranchEdges on its own
MaxLen == 3

\* ------------------------------------------------------- values and inputs
rootId == "node-0"
\* an absent edge.id / a null branchLabel (both falsy in the source)
NoId == ""
NullLabel == ""
\* the value of map[key] for a key that holds undefined
Undefined == [undefined |-> TRUE]
\* the result null of findParent
Null == [null |-> TRUE]

NodeTypes == {"action", "branch", "end"}
\* an id no insert ever hands out
UnknownId == "node-x"
\* a branchLabel no edge carries
UnknownLabel == "Maybe"
\* the label texts typed into a node's input
EditLabels == {"X"}

\* `node-${value}`
NodeKey(n) == "node-" \o ToString(n)

\* the keys nextId can form within the bounds, by suffix
NodeKeys == [n \in 0..(MaxId + 2) |-> NodeKey(n)]

\* Number(key.replace('node-', '')): the suffix, or -1 for NaN
KeyNum(key) ==
  IF \E n \in DOMAIN NodeKeys : key = NodeKeys[n]
  THEN CHOOSE n \in DOMAIN NodeKeys : key = NodeKeys[n]
  ELSE -1

Edge(label, id) == [label |-> label, id |-> id]

\* prev[key] is truthy
Has(map, key) == key \in DOMAIN map /\ map[key] # Undefined

\* { ...map, [key]: value }
Put(map, key, value) ==
  [k \in (DOMAIN map) \cup {key} |-> IF k = key THEN value ELSE map[k]]

\* delete map[key]
Remove(map, key) == [k \in (DOMAIN map) \ {key} |-> map[k]]

\* ---------------------------------------------------- utils/workflow.ts
BRANCH_BASE == <<"True", "False">>

HasLabel(edges, label) == \E i \in 1..Len(edges) : edges[i].label = label

RECURSIVE ensureFrom(_, _)
ensureFrom(edges, b) ==
  IF b > Len(BRANCH_BASE) THEN edges
  ELSE ensureFrom(IF HasLabel(edges, BRANCH_BASE[b])
                  THEN edges
                  ELSE Append(edges, Edge(BRANCH_BASE[b], NoId)), b + 1)

\* ensureBranchEdges pushing both canonical edges whatever the argument holds
ensureBranchEdgesPushesBoth(children) ==
  children \o <<Edge(BRANCH_BASE[1], NoId), Edge(BRANCH_BASE[2], NoId)>>

ensureBranchEdges(children) == ensureFrom(children, 1)

createNode(id, type) ==
  IF type = "branch"
  THEN [id |-> id, label |-> "Branch", type |-> type, children |-> ensureBranchEdges(<<>>)]
  ELSE IF type = "end"
  THEN [id |-> id, label |-> "End", type |-> type, children |-> <<>>]
  ELSE [id |-> id, label |-> "Action", type |-> type, children |-> <<>>]

\* cloneNodes throws (TypeError on node.id) when a value of the map is undefined
CanClone(map) == \A k \in DOMAIN map : map[k] # Undefined

\* result[node.id] = { ...node, children: copies }, over Object.values(map)
cloneNodes(map) ==
  LET ids == {map[k].id : k \in DOMAIN map}
  IN [i \in ids |-> LET k == CHOOSE k \in DOMAIN map : map[k].id = i
                    IN [id |-> map[k].id, label |-> map[k].label, type |-> map[k].type,
                        children |-> [e \in 1..Len(map[k].children) |->
                                        Edge(map[k].children[e].label, map[k].children[e].id)]]]

RECURSIVE findParent(_, _, _), findParentFrom(_, _, _, _)
findParentFrom(currentId, targetId, map, i) ==
  LET node == map[currentId]
  IN IF i > Len(node.children) THEN Null
     ELSE LET childId == node.children[i].id
              nested == IF childId # NoId THEN findParent(childId, targetId, map) ELSE Null
          IN IF childId = targetId THEN [parentId |-> currentId, edgeIndex |-> i]
             ELSE IF nested # Null THEN nested
             ELSE findParentFrom(currentId, targetId, map, i + 1)

findParent(currentId, targetId, map) ==
  IF ~Has(map, currentId) THEN Null
  ELSE findParentFrom(currentId, targetId, map, 1)

\* ------------------------------------------------------------- App.tsx
DefaultGraph ==
  [k \in {rootId} |-> [id |-> rootId, label |-> "Start", type |-> "action", children |-> <<>>]]

\* the idCounter effect: highest numeric suffix among the keys, plus one
MaxKeyNum(map) ==
  LET nums == {KeyNum(k) : k \in DOMAIN map} \cup {0}
  IN CHOOSE m \in nums : \A n \in nums : n <= m

idCounterEffect(map) == MaxKeyNum(map) + 1

\* what an updater returns: prev itself (same) or a new map
Same(prev) == [same |-> TRUE, map |-> prev]
Changed(map) == [same |-> FALSE, map |-> map]

\* attachExistingChild giving an end node the edge of an action node
attachExistingChildAnyKind(node, childId) ==
  IF childId = NoId THEN node
  ELSE IF node.type = "branch"
  THEN LET edges == ensureBranchEdges(node.children)
       IN [node EXCEPT !.children = [edges EXCEPT ![1] = Edge(edges[1].label, childId)]]
  ELSE [node EXCEPT !.children = <<Edge("Next", childId)>>]

\* attachExistingChild hanging the child from a branch's second slot
attachExistingChildSecondSlot(node, childId) ==
  IF childId = NoId THEN node
  ELSE IF node.type = "branch"
  THEN LET edges == ensureBranchEdges(node.children)
       IN [node EXCEPT !.children = [edges EXCEPT ![2] = Edge(edges[2].label, childId)]]
  ELSE IF node.type = "action"
  THEN [node EXCEPT !.children = <<Edge("Next", childId)>>]
  ELSE node

attachExistingChild(node, childId) ==
  IF childId = NoId THEN node
  ELSE IF node.type = "branch"
  THEN LET edges == ensureBranchEdges(node.children)
       IN [node EXCEPT !.children = [edges EXCEPT ![1] = Edge(edges[1].label, childId)]]
  ELSE IF node.type = "action"
  THEN [node EXCEPT !.children = <<Edge("Next", childId)>>]
  ELSE node

\* edges.findIndex((edge) => edge.label === branchLabel), 0 for -1
FindIndex(edges, label) ==
  IF HasLabel(edges, label)
  THEN CHOOSE i \in 1..Len(edges) :
         edges[i].label = label /\ \A j \in 1..(i - 1) : edges[j].label # label
  ELSE 0

\* addNode without the guard on an end parent: the new node is added and
\* no edge of the parent is rewritten
addNodeUpdaterNoEndGuard(prev, parentId, branchLabel, type, newId) ==
  IF ~Has(prev, parentId) THEN Same(prev)
  ELSE LET parent == prev[parentId] IN
  IF parent.type = "end" THEN Changed(Put(prev, newId, createNode(newId, type)))
  ELSE IF parent.type = "action"
  THEN LET existing == IF Len(parent.children) >= 1 THEN parent.children[1].id ELSE NoId
           newNode == attachExistingChild(createNode(newId, type), existing)
       IN Changed(Put(Put(prev, newId, newNode), parentId,
                      [parent EXCEPT !.children = <<Edge("Next", newId)>>]))
  ELSE LET edges == ensureBranchEdges(parent.children)
           matchIndex == IF branchLabel # NullLabel THEN FindIndex(edges, branchLabel) ELSE 1
           targetIndex == IF matchIndex = 0 THEN 1 ELSE matchIndex
           priorTarget == edges[targetIndex].id
           newNode == attachExistingChild(createNode(newId, type), priorTarget)
       IN Changed(Put(Put(prev, newId, newNode), parentId,
                      [parent EXCEPT !.children =
                         [edges EXCEPT ![targetIndex] = Edge(edges[targetIndex].label, newId)]]))

\* the updater of addNode; newId is the value nextId() returns
addNodeUpdater(prev, parentId, branchLabel, type, newId) ==
  IF ~Has(prev, parentId) THEN Same(prev)
  ELSE LET parent == prev[parentId] IN
  IF parent.type = "end" THEN Same(prev)
  ELSE IF parent.type = "action"
  THEN LET existing == IF Len(parent.children) >= 1 THEN parent.children[1].id ELSE NoId
           newNode == attachExistingChild(createNode(newId, type), existing)
       IN Changed(Put(Put(prev, newId, newNode), parentId,
                      [parent EXCEPT !.children = <<Edge("Next", newId)>>]))
  ELSE LET edges == ensureBranchEdges(parent.children)
           matchIndex == IF branchLabel # NullLabel THEN FindIndex(edges, branchLabel) ELSE 1
           targetIndex == IF matchIndex = 0 THEN 1 ELSE matchIndex
           priorTarget == edges[targetIndex].id
           newNode == attachExistingChild(createNode(newId, type), priorTarget)
       IN Changed(Put(Put(prev, newId, newNode), parentId,
                      [parent EXCEPT !.children =
                         [edges EXCEPT ![targetIndex] = Edge(edges[targetIndex].label, newId)]]))

\* target.children.filter((edge) => edge.id)
Adopted(children) == SelectSeq(children, LAMBDA e : e.id # NoId)

\* splice with a delete count of 0: the replaced slot stays
SpliceKeepsSlot(edges, i, replacements) ==
  SubSeq(edges, 1, i - 1) \o replacements \o SubSeq(edges, i, Len(edges))

\* edges.splice(edgeIndex, 1, ...replacements)
Splice(edges, i, replacements) ==
  SubSeq(edges, 1, i - 1) \o replacements \o SubSeq(edges, i + 1, Len(edges))

\* deleteNode removing the parent's key instead of the target's
deleteNodeUpdaterDropsParent(prev, targetId) ==
  LET relation == findParent(rootId, targetId, prev) IN
  IF relation = Null THEN Same(prev)
  ELSE Changed(Remove(prev, relation.parentId))

\* deleteNode that never re-attaches what the target pointed to
deleteNodeUpdaterNoAdopt(prev, targetId) ==
  LET relation == findParent(rootId, targetId, prev) IN
  IF relation = Null THEN Same(prev)
  ELSE LET parent == prev[relation.parentId]
       IN Changed(Put(Remove(prev, targetId), relation.parentId,
                      [parent EXCEPT !.children =
                         IF parent.type = "action" THEN <<>>
                         ELSE [parent.children EXCEPT ![relation.edgeIndex] =
                                 Edge(parent.children[relation.edgeIndex].label, NoId)]]))

\* deleteNode under a branch parent with the steps of its rewiring switched:
\* promote, a single adopted edge takes the slot under the slot's label
\* (otherwise it is spliced in like several); normalize, the rewired edges go
\* through ensureBranchEdges; cascade, the adopted targets leave the map too
deleteNodeUpdaterVariant(prev, targetId, promote, normalize, cascade) ==
  LET relation == findParent(rootId, targetId, prev) IN
  IF relation = Null THEN Same(prev)
  ELSE LET parentId == relation.parentId
           edgeIndex == relation.edgeIndex
           parent == prev[parentId]
           target == prev[targetId]
           adopted == Adopted(target.children)
           gone == {targetId} \cup
                   (IF cascade THEN {adopted[i].id : i \in 1..Len(adopted)} ELSE {})
           updated == [k \in (DOMAIN prev) \ gone |-> prev[k]]
       IN
  IF parent.type = "action"
  THEN Changed(Put(updated, parentId,
         [parent EXCEPT !.children =
            IF Len(adopted) >= 1
            THEN <<Edge(parent.children[edgeIndex].label, adopted[1].id)>>
            ELSE <<>>]))
  ELSE LET edges == ensureBranchEdges(parent.children)
           base == edges[edgeIndex]
           replacements ==
             [idx \in 1..Len(adopted) |->
                Edge(base.label \o " + " \o adopted[idx].label, adopted[idx].id)]
           rewired ==
             IF Len(adopted) = 0 THEN [edges EXCEPT ![edgeIndex] = Edge(base.label, NoId)]
             ELSE IF Len(adopted) = 1 /\ promote
             THEN [edges EXCEPT ![edgeIndex] = Edge(base.label, adopted[1].id)]
             ELSE Splice(edges, edgeIndex, replacements)
       IN Changed(Put(updated, parentId,
                      [parent EXCEPT !.children =
                         IF normalize THEN ensureBranchEdges(rewired) ELSE rewired]))

\* deleteNode leaving the parent's edge to the target as it is
deleteNodeUpdaterKeepsEdge(prev, targetId) ==
  LET relation == findParent(rootId, targetId, prev) IN
  IF relation = Null THEN Same(prev)
  ELSE Changed(Remove(prev, targetId))

\* deleteNode storing the rewired edges of a branch parent as they are
deleteNodeUpdaterNoNormalize(prev, targetId) ==
  deleteNodeUpdaterVariant(prev, targetId, TRUE, FALSE, FALSE)

\* deleteNode splicing a single adopted edge in under a combined label
deleteNodeUpdaterNoPromote(prev, targetId) ==
  deleteNodeUpdaterVariant(prev, targetId, FALSE, TRUE, FALSE)

\* deleteNode removing the nodes the target pointed to along with it
deleteNodeUpdaterCascade(prev, targetId) ==
  deleteNodeUpdaterVariant(prev, targetId, TRUE, TRUE, TRUE)

\* the updater of deleteNode
deleteNodeUpdater(prev, targetId) ==
  LET relation == findParent(rootId, targetId, prev) IN
  IF relation = Null THEN Same(prev)
  ELSE LET parentId == relation.parentId
           edgeIndex == relation.edgeIndex
       IN
  IF ~Has(prev, parentId) \/ ~Has(prev, targetId) THEN Same(prev)
  ELSE LET parent == prev[parentId]
           target == prev[targetId]
           updated == Remove(prev, targetId)
           adopted == Adopted(target.children)
       IN
  IF parent.type = "action"
  THEN Changed(Put(updated, parentId,
         [parent EXCEPT !.children =
            IF Len(adopted) >= 1
            THEN <<Edge(IF edgeIndex <= Len(parent.children)
                        THEN parent.children[edgeIndex].label ELSE "Next",
                        adopted[1].id)>>
            ELSE <<>>]))
  ELSE IF parent.type = "branch"
  THEN LET edges == ensureBranchEdges(parent.children)
           base == IF edgeIndex <= Len(edges) THEN edges[edgeIndex] ELSE Edge("Next", NoId)
           replacements ==
             [idx \in 1..Len(adopted) |->
                Edge(IF adopted[idx].label # ""
                     THEN base.label \o " + " \o adopted[idx].label
                     ELSE base.label \o " path " \o ToString(idx),
                     adopted[idx].id)]
           rewired ==
             IF Len(adopted) = 0 THEN [edges EXCEPT ![edgeIndex] = Edge(base.label, NoId)]
             ELSE IF Len(adopted) = 1
             THEN [edges EXCEPT ![edgeIndex] = Edge(base.label, adopted[1].id)]
             ELSE Splice(edges, edgeIndex, replacements)
       IN Changed(Put(updated, parentId,
                      [parent EXCEPT !.children = ensureBranchEdges(rewired)]))
  ELSE Changed(updated)

\* deleteNode: the root guard in front of the updater
deleteNodeResult(prev, targetId) ==
  IF targetId = rootId THEN Same(prev) ELSE deleteNodeUpdater(prev, targetId)

\* addBranchPath numbering the new edge by the count before the append
addBranchPathUpdaterCountsBefore(prev, nodeId) ==
  IF ~Has(prev, nodeId) THEN Same(prev)
  ELSE LET node == prev[nodeId] IN
  IF node.type # "branch" THEN Same(prev)
  ELSE Changed(Put(prev, nodeId,
         [node EXCEPT !.children =
            Append(node.children, Edge("Path " \o ToString(Len(node.children)), NoId))]))

\* the updater of addBranchPath
addBranchPathUpdater(prev, nodeId) ==
  IF ~Has(prev, nodeId) THEN Same(prev)
  ELSE LET node == prev[nodeId] IN
  IF node.type # "branch" THEN Same(prev)
  ELSE Changed(Put(prev, nodeId,
         [node EXCEPT !.children =
            Append(node.children, Edge("Path " \o ToString(Len(node.children) + 1), NoId))]))

\* updateLabel writing the label into every node of the map
updateLabelUpdaterEveryNode(prev, id, label) ==
  [k \in (DOMAIN prev) \cup {id} |->
     IF Has(prev, k) THEN [prev[k] EXCEPT !.label = label] ELSE Undefined]

\* the updater of updateLabel: always a new map; an absent id gets the key
\* with the value undefined
updateLabelUpdater(prev, id, label) ==
  Put(prev, id, IF Has(prev, id) THEN [prev[id] EXCEPT !.label = label]
                ELSE IF id \in DOMAIN prev THEN prev[id] ELSE Undefined)

\* ------------------------------------------------------------ the state
\* loadInitial, nodes, history, historyIndex: the memo and the React state of
\* App; idCounter: the ref; crashed: an updater threw, the tree is unmounted.
\* last: the request the last step served, whether it changed the state and
\* how many history entries its commit dropped; run: how the session went so
\* far (only tracked commits, then only undos, or anything else).
\* ensure: a call of ensureBranchEdges on its own, its argument children, the
\* edges it returned last and the number of calls made on it.
VARIABLES loadInitial, nodes, history, historyIndex, idCounter, crashed, last, run,
          ensure

vars == <<loadInitial, nodes, history, historyIndex, idCounter, crashed, last, run,
          ensure>>

\* the React state as one value
Cur == [nodes |-> nodes, history |-> history, historyIndex |-> historyIndex]

\* applyChange throws when cloneNodes(next) throws
applyChangeThrows(st, upd, trackHistory) ==
  ~upd.same /\ trackHistory /\ ~CanClone(upd.map)

\* applyChange appending to the whole history, the redo tail kept
applyChangeNoTrim(st, upd, trackHistory) ==
  IF upd.same THEN st
  ELSE IF trackHistory
  THEN [nodes |-> upd.map,
        history |-> Append(st.history, cloneNodes(upd.map)),
        historyIndex |-> st.historyIndex + 1]
  ELSE [st EXCEPT !.nodes = upd.map]

\* applyChange trimming at historyIndex: the snapshot replaces the entry
\* under the cursor
applyChangeOverwrites(st, upd, trackHistory) ==
  IF upd.same THEN st
  ELSE IF trackHistory
  THEN [nodes |-> upd.map,
        history |-> Append(SubSeq(st.history, 1, st.historyIndex), cloneNodes(upd.map)),
        historyIndex |-> st.historyIndex]
  ELSE [st EXCEPT !.nodes = upd.map]

\* applyChange on the state st with the updater's result upd
applyChange(st, upd, trackHistory) ==
  IF upd.same THEN st
  ELSE IF trackHistory
  THEN [nodes |-> upd.map,
        history |-> Append(SubSeq(st.history, 1, st.historyIndex + 1), cloneNodes(upd.map)),
        historyIndex |-> st.historyIndex + 1]
  ELSE [st EXCEPT !.nodes = upd.map]

\* undo moving the cursor without restoring the snapshot
undoKeepsNodes(st) ==
  IF st.historyIndex = 0 THEN st
  ELSE [st EXCEPT !.historyIndex = st.historyIndex - 1]

undo(st) ==
  IF st.historyIndex = 0 THEN st
  ELSE [st EXCEPT !.historyIndex = st.historyIndex - 1,
                  !.nodes = cloneNodes(st.history[st.historyIndex])]

\* redo jumping to the last entry of the history
redoToLast(st) ==
  IF st.historyIndex >= Len(st.history) - 1 THEN st
  ELSE [st EXCEPT !.historyIndex = Len(st.history) - 1,
                  !.nodes = cloneNodes(st.history[Len(st.history)])]

redo(st) ==
  IF st.historyIndex >= Len(st.history) - 1 THEN st
  ELSE [st EXCEPT !.historyIndex = st.historyIndex + 1,
                  !.nodes = cloneNodes(st.history[st.historyIndex + 2])]

\* a graph an earlier session stored: root -> branch node-1, whose "True"
\* edge leads to branch node-2, whose "True" and "False" edges lead to the
\* actions node-3 and node-4
StoredGraph ==
  LET g1 == addNodeUpdater(DefaultGraph, rootId, NullLabel, "branch", NodeKey(1)).map
      g2 == addNodeUpdater(g1, NodeKey(1), "True", "branch", NodeKey(2)).map
      g3 == addNodeUpdater(g2, NodeKey(2), "True", "action", NodeKey(3)).map
  IN addNodeUpdater(g3, NodeKey(2), "False", "action", NodeKey(4)).map

\* no call of ensureBranchEdges on its own is under way
EnsureIdle == [children |-> <<>>, edges |-> <<>>, calls |-> 0]

\* the state after construction, loadInitial having returned the graph stored
InitFrom(stored) ==
  /\ loadInitial = stored
  /\ nodes = cloneNodes(loadInitial)
  /\ history = <<cloneNodes(loadInitial)>>
  /\ historyIndex = 0
  /\ idCounter = idCounterEffect(nodes)
  /\ crashed = FALSE
  /\ last = [op |-> "init", id |-> NoId, applied |-> FALSE, dropped |-> 0]
  /\ run = [phase |-> "edit", commits |-> 0, undos |-> 0]
  /\ ensure = EnsureIdle

\* nothing in storage: the default graph
Init == InitFrom(DefaultGraph)

\* the stored graph in storage
InitStored == InitFrom(StoredGraph)

HistBound == IF loadInitial = DefaultGraph THEN MaxHist ELSE MaxHistStored

RunOther == [phase |-> "other", commits |-> 0, undos |-> 0]

\* the state after a handler that ran applyChange(updater, true); upd is
\* what the updater returns on the current map
TrackedWithin(bound, op, id, upd) ==
  /\ ~crashed
  /\ upd.same \/ historyIndex + 2 <= bound
  /\ last' = [op |-> op, id |-> id, applied |-> ~upd.same /\ CanClone(upd.map),
              dropped |-> IF ~upd.same /\ CanClone(upd.map)
                          THEN Len(history) - (historyIndex + 1) ELSE 0]
  /\ IF applyChangeThrows(Cur, upd, TRUE)
     THEN /\ crashed' = TRUE
          /\ idCounter' = IF op = "insert" THEN idCounter + 1 ELSE idCounter
          /\ UNCHANGED <<loadInitial, nodes, history, historyIndex, run, ensure>>
     ELSE LET st == applyChange(Cur, upd, TRUE)
          IN /\ nodes' = st.nodes
             /\ history' = st.history
             /\ historyIndex' = st.historyIndex
             /\ idCounter' = idCounterEffect(st.nodes)
             /\ run' = IF upd.same THEN run
                       ELSE IF run.phase = "edit"
                       THEN [run EXCEPT !.commits = run.commits + 1]
                       ELSE RunOther
             /\ UNCHANGED <<loadInitial, crashed, ensure>>

Tracked(op, id, upd) == TrackedWithin(HistBound, op, id, upd)

\* the ids a request may name: every key of the map and one unknown id
RequestIds == (DOMAIN nodes) \cup {UnknownId}

\* the branch labels a request may carry for parentId: null, and for a branch
\* also the label of each of its slots and a label it does not have
RequestLabels(parentId) ==
  IF Has(nodes, parentId) /\ nodes[parentId].type = "branch"
  THEN {NullLabel, UnknownLabel} \cup
       {nodes[parentId].children[i].label : i \in 1..Len(nodes[parentId].children)}
  ELSE {NullLabel}

Insert(parentId, branchLabel, type) ==
  /\ idCounter <= MaxId
  /\ Tracked("insert", parentId,
             addNodeUpdater(nodes, parentId, branchLabel, type, NodeKey(idCounter)))

Delete(targetId) ==
  Tracked("delete", targetId, deleteNodeResult(nodes, targetId))

AddBranchPath(nodeId) ==
  /\ (Has(nodes, nodeId) /\ nodes[nodeId].type = "branch")
       => Len(nodes[nodeId].children) < MaxEdges
  /\ Tracked("addBranchPath", nodeId, addBranchPathUpdater(nodes, nodeId))

\* the ids whose label input is typed into
LabelIds == {rootId, UnknownId}

UpdateLabel(id, label) ==
  /\ ~crashed
  /\ last' = [op |-> "updateLabel", id |-> id, applied |-> Has(nodes, id), dropped |-> 0]
  /\ nodes' = updateLabelUpdater(nodes, id, label)
  /\ idCounter' = idCounterEffect(nodes')
  /\ run' = IF run.phase = "edit" THEN run ELSE RunOther
  /\ UNCHANGED <<loadInitial, history, historyIndex, crashed, ensure>>

Undo ==
  /\ ~crashed
  /\ last' = [op |-> "undo", id |-> NoId, applied |-> historyIndex # 0, dropped |-> 0]
  /\ LET st == undo(Cur)
     IN /\ nodes' = st.nodes
        /\ history' = st.history
        /\ historyIndex' = st.historyIndex
        /\ idCounter' = idCounterEffect(st.nodes)
  /\ run' = IF historyIndex = 0 THEN (IF run.phase = "other" THEN RunOther ELSE run)
            ELSE IF run.phase = "edit" THEN [run EXCEPT !.phase = "undo", !.undos = 1]
            ELSE IF run.phase = "undo" THEN [run EXCEPT !.undos = run.undos + 1]
            ELSE RunOther
  /\ UNCHANGED <<loadInitial, crashed, ensure>>

Redo ==
  /\ ~crashed
  /\ last' = [op |-> "redo", id |-> NoId, applied |-> historyIndex < Len(history) - 1,
              dropped |-> 0]
  /\ LET st == redo(Cur)
     IN /\ nodes' = st.nodes
        /\ history' = st.history
        /\ historyIndex' = st.historyIndex
        /\ idCounter' = idCounterEffect(st.nodes)
  /\ run' = RunOther
  /\ UNCHANGED <<loadInitial, crashed, ensure>>

Next ==
  \/ \E parentId \in RequestIds, type \in NodeTypes :
       \E branchLabel \in RequestLabels(parentId) : Insert(parentId, branchLabel, type)
  \/ \E targetId \in RequestIds : Delete(targetId)
  \/ \E nodeId \in RequestIds : AddBranchPath(nodeId)
  \/ \E id \in LabelIds, label \in EditLabels : UpdateLabel(id, label)
  \/ Undo
  \/ Redo

Spec == Init /\ [][Next]_vars

\* the structural operations and the history alone: a label edit touches no
\* children sequence, so the rewiring of a delete does not depend on it
NextStructural ==
  \/ \E parentId \in RequestIds, type \in NodeTypes :
       \E branchLabel \in RequestLabels(parentId) : Insert(parentId, branchLabel, type)
  \/ \E targetId \in RequestIds : Delete(targetId)
  \/ \E nodeId \in RequestIds : AddBranchPath(nodeId)
  \/ Undo
  \/ Redo

SpecStored == InitStored /\ [][NextStructural]_vars

\* another graph an earlier session stored: root -> branch node-1, whose
\* "True" edge leads to the action node-2, followed by the action node-3, and
\* whose "False" edge leads to the action node-4
ChainGraph ==
  LET g1 == addNodeUpdater(DefaultGraph, rootId, NullLabel, "branch", NodeKey(1)).map
      g2 == addNodeUpdater(g1, NodeKey(1), "True", "action", NodeKey(2)).map
      g3 == addNodeUpdater(g2, NodeKey(2), NullLabel, "action", NodeKey(3)).map
  IN addNodeUpdater(g3, NodeKey(1), "False", "action", NodeKey(4)).map

InitChain == InitFrom(ChainGraph)

SpecChain == InitChain /\ [][NextStructural]_vars

\* a third graph an earlier session stored, after a branch on the "True" slot
\* of the branch node-1 was deleted (its two edges spliced in, a new "True"
\* edge appended) and another branch, node-6, with two connected edges was
\* inserted on that new "True" slot
SplicedGraph ==
  LET g1 == addNodeUpdater(DefaultGraph, rootId, NullLabel, "branch", NodeKey(1)).map
      g2 == addNodeUpdater(g1, NodeKey(1), "True", "action", NodeKey(2)).map
      g3 == addNodeUpdater(g2, NodeKey(1), "True", "branch", NodeKey(3)).map
      g4 == addNodeUpdater(g3, NodeKey(3), "False", "action", NodeKey(4)).map
      g5 == deleteNodeResult(g4, NodeKey(3)).map
      g6 == addNodeUpdater(g5, NodeKey(1), "True", "action", NodeKey(5)).map
      g7 == addNodeUpdater(g6, NodeKey(1), "True", "branch", NodeKey(6)).map
  IN addNodeUpdater(g7, NodeKey(6), "False", "action", NodeKey(7)).map

InitSpliced == InitFrom(SplicedGraph)

SpecSpliced == InitSpliced /\ [][NextStructural]_vars

\* a session from the default graph in which every insert is asked for on the
\* root's add button (handleInsert passes no branch label for an action node)
InsertAtRoot(type) ==
  /\ idCounter <= MaxId
  /\ TrackedWithin(MaxHistRoot, "insert", rootId,
                   addNodeUpdater(nodes, rootId, NullLabel, type, NodeKey(idCounter)))

DeleteWithin(targetId) ==
  TrackedWithin(MaxHistRoot, "delete", targetId, deleteNodeResult(nodes, targetId))

NextRoot ==
  \/ \E type \in NodeTypes : InsertAtRoot(type)
  \/ \E targetId \in RequestIds : DeleteWithin(targetId)
  \/ Undo
  \/ Redo

SpecRoot == Init /\ [][NextRoot]_vars

\* ensureBranchEdges on its own: the edges an argument may hold
EnsureLabels == {"True", "False", "Path 3"}
EnsureIds == {NoId, "node-1"}
EnsureEdges == {Edge(l, i) : l \in EnsureLabels, i \in EnsureIds}
EnsureArgs == UNION {[1..n -> EnsureEdges] : n \in 0..MaxLen}

InitEnsure ==
  /\ loadInitial = DefaultGraph
  /\ nodes = cloneNodes(loadInitial)
  /\ history = <<cloneNodes(loadInitial)>>
  /\ historyIndex = 0
  /\ idCounter = idCounterEffect(nodes)
  /\ crashed = FALSE
  /\ last = [op |-> "init", id |-> NoId, applied |-> FALSE, dropped |-> 0]
  /\ run = [phase |-> "edit", commits |-> 0, undos |-> 0]
  /\ \E children \in EnsureArgs :
       ensure = [children |-> children, edges |-> <<>>, calls |-> 0]

\* ensureBranchEdges(children)
EnsureCall ==
  /\ ensure.calls = 0
  /\ ensure' = [ensure EXCEPT !.edges = ensureBranchEdges(ensure.children), !.calls = 1]
  /\ UNCHANGED <<loadInitial, nodes, history, historyIndex, idCounter, crashed, last, run>>

\* ensureBranchEdges on the edges the first call returned
EnsureAgain ==
  /\ ensure.calls = 1
  /\ ensure' = [ensure EXCEPT !.edges = ensureBranchEdges(ensure.edges), !.calls = 2]
  /\ UNCHANGED <<loadInitial, nodes, history, historyIndex, idCounter, crashed, last, run>>

NextEnsure ==
  \/ EnsureCall
  \/ EnsureAgain

SpecEnsure == InitEnsure /\ [][NextEnsure]_vars


\* ------------------------------------------------------------ properties
\* the ids the connected edges of map[k] lead to
Targets(map, k) ==
  IF Has(map, k)
  THEN {map[k].children[i].id : i \in 1..Len(map[k].children)} \ {NoId}
  ELSE {}

RECURSIVE ReachN(_, _, _)
ReachN(map, seen, n) ==
  IF n = 0 THEN seen
  ELSE ReachN(map, seen \cup UNION {Targets(map, k) : k \in seen}, n - 1)

\* the ids reachable from the root along connected edges
Reach(map) == ReachN(map, {rootId}, Cardinality(DOMAIN map))

\* the nodes with an edge to t
ParentsOf(map, t) == {k \in DOMAIN map : t \in Targets(map, k)}

\* the connected edges of a children sequence, in order
Connected(children) ==
  LET idx == {i \in 1..Len(children) : children[i].id # NoId}
      RECURSIVE take(_)
      take(i) == IF i > Len(children) THEN <<>>
                 ELSE IF i \in idx THEN <<children[i]>> \o take(i + 1) ELSE take(i + 1)
  IN take(1)

TrackedOps == {"insert", "delete", "addBranchPath"}

\* the graph the last commit was applied to, as the history keeps it
Pre == history[historyIndex]

\* C1: every node in the map is reachable from the root along connected
\* edges; no operation leaves an orphan in the map.
C1_NoOrphan == \A k \in DOMAIN nodes : Has(nodes, k) => k \in Reach(nodes)

\* C2: the root id is a key of the map and the root node is an Action node.
C2_RootIsAction ==
  Has(nodes, rootId) /\ nodes[rootId].id = rootId /\ nodes[rootId].type = "action"

\* a delete was applied to the root's only child and left the root alone
C2_Witness ==
  /\ last.op = "delete" /\ last.applied
  /\ ParentsOf(Pre, last.id) = {rootId}
  /\ DOMAIN nodes = {rootId}

\* C3: an insert under an Action parent leaves the parent with the one edge
\* "Next" to the new node, and the new node, whatever its kind, has an edge to
\* the parent's previous successor (no connected edge if there was none).
C3_InsertUnderAction ==
  [][(last'.op = "insert" /\ last'.applied /\ nodes[last'.id].type = "action") =>
       LET P == last'.id
           N == NodeKey(idCounter)
           C == IF nodes[P].children = <<>> THEN NoId ELSE nodes[P].children[1].id
       IN /\ nodes'[P].children = <<Edge("Next", N)>>
          /\ IF C # NoId THEN C \in Targets(nodes', N) ELSE Targets(nodes', N) = {}]_vars

C5_DeleteUnderBranch ==
  [][(last'.op = "delete" /\ last'.applied) =>
       LET T == last'.id
       IN \A P \in ParentsOf(nodes, T) \cap Reach(nodes) :
            (nodes[P].type = "branch" /\ Len(Connected(nodes[T].children)) >= 2) =>
              LET old == nodes[P].children
                  new == nodes'[P].children
                  e == CHOOSE i \in 1..Len(old) : old[i].id = T
                  ad == Connected(nodes[T].children)
                  k == Len(ad)
              IN /\ Len(new) >= Len(old) + k - 1
                 /\ \A i \in 1..(e - 1) : new[i] = old[i]
                 /\ \A i \in 1..k :
                      new[e + i - 1] =
                        Edge(IF ad[i].label # ""
                             THEN old[e].label \o " + " \o ad[i].label
                             ELSE old[e].label \o " path " \o ToString(i),
                             ad[i].id)
                 /\ \A i \in (e + 1)..Len(old) : new[i + k - 1] = old[i]
                 /\ \A i \in (Len(old) + k)..Len(new) :
                      new[i].id = NoId /\ new[i].label \in {"True", "False"}
                 /\ HasLabel(new, "True") /\ HasLabel(new, "False")]_vars

\* a node with two connected edges was deleted under a Branch parent, whose
\* "True" slot it hung from
C5_Witness ==
  /\ last.op = "delete" /\ last.applied
  /\ \E P \in ParentsOf(Pre, last.id) :
       /\ Pre[P].type = "branch"
       /\ Cardinality(Targets(Pre, last.id)) >= 2
       /\ Targets(Pre, last.id) \subseteq Targets(nodes, P)
       /\ HasLabel(nodes[P].children, "True + False")

\* C6: inserting under any parent that is not an End node and deleting the
\* new node right away gives the parent the edges, labels and targets, it had.
C6_InsertDeleteRoundTrip ==
  (~crashed /\ CanClone(nodes)) =>
    \A P \in DOMAIN nodes : nodes[P].type # "end" =>
      \A branchLabel \in RequestLabels(P), type \in NodeTypes :
        LET N == NodeKey(idCounter)
            inserted == addNodeUpdater(nodes, P, branchLabel, type, N).map
            deleted == deleteNodeResult(inserted, N).map
        IN deleted[P].children = nodes[P].children

\* C7: from the default graph, after N tracked commits, label edits and
\* requests that do nothing, N undos make the live graph the default graph
\* again, with the cursor at 0.
C7_UndoAll ==
  (loadInitial = DefaultGraph /\ run.phase = "undo" /\ run.undos = run.commits) =>
    (nodes = DefaultGraph /\ historyIndex = 0)

\* two commits, the first one after a label edit, then two undos
C7_Witness ==
  /\ run.phase = "undo" /\ run.commits = 2 /\ run.undos = 2
  /\ last.op = "undo" /\ last.applied
  /\ Len(history) = 3
  /\ history[2][rootId].label = "X"

\* C8: with the cursor above 0, undo followed at once by redo gives the live
\* graph back as it was before the undo, labels included.
C8_UndoRedo ==
  (~crashed /\ CanClone(nodes) /\ historyIndex > 0) => redo(undo(Cur)).nodes = nodes

\* C9: a tracked mutation that changes the graph at cursor c makes the
\* history its entries 0..c followed by the resulting graph and the cursor
\* c + 1, the last index; a redo right after it changes nothing.
C9_Commit ==
  [][(last'.op \in TrackedOps /\ last'.applied) =>
       /\ history' = SubSeq(history, 1, historyIndex + 1) \o <<nodes'>>
       /\ historyIndex' = historyIndex + 1
       /\ historyIndex' = Len(history') - 1
       /\ nodes' # nodes
       /\ redo([nodes |-> nodes', history |-> history', historyIndex |-> historyIndex'])
            = [nodes |-> nodes', history |-> history', historyIndex |-> historyIndex']]_vars

\* a commit at cursor 0 that dropped a redo tail of two entries
C9_Witness ==
  /\ last.op \in TrackedOps /\ last.applied
  /\ last.dropped = 2
  /\ historyIndex = 1 /\ Len(history) = 2

\* the structural requests that cannot apply to the current graph
CannotApply(op, id) ==
  \/ op = "insert" /\ (~Has(nodes, id) \/ nodes[id].type = "end")
  \/ op = "delete" /\ (id = rootId \/ \A p \in Reach(nodes) : id \notin Targets(nodes, p))
  \/ op = "addBranchPath" /\ (~Has(nodes, id) \/ nodes[id].type # "branch")

\* C10: a structural request that cannot apply leaves the live graph, the
\* history and the cursor as they were, and nothing throws.
C10_NoOp ==
  [][CannotApply(last'.op, last'.id) =>
       /\ nodes' = nodes
       /\ history' = history
       /\ historyIndex' = historyIndex
       /\ ~crashed']_vars

\* an insert was requested under an End node and nothing happened
C10_Witness ==
  /\ last.op = "insert" /\ ~last.applied /\ ~crashed
  /\ Has(nodes, last.id) /\ nodes[last.id].type = "end"
  /\ historyIndex = 1 /\ Len(history) = 2

\* C11: updateLabel with an id that is not a key of the map leaves the map as
\* it was, key set and records (no entry for the unknown id), and a tracked
\* mutation made afterwards commits without throwing.
C11_UpdateLabelUnknown ==
  [][/\ (last'.op = "updateLabel" /\ last'.id \notin DOMAIN nodes) =>
          (DOMAIN nodes' = DOMAIN nodes /\ nodes' = nodes)
     /\ (last'.op \in TrackedOps) => ~crashed']_vars

\* C12: every End node of the live graph has no edges and every Action node
\* has at most one.
C12_EndAndActionEdges ==
  \A k \in DOMAIN nodes : Has(nodes, k) =>
    /\ nodes[k].type = "end" => nodes[k].children = <<>>
    /\ nodes[k].type = "action" => Len(nodes[k].children) <= 1

\* an End node was inserted under an Action parent that had a successor
C12_Witness ==
  /\ last.op = "insert" /\ last.applied
  /\ Pre[last.id].type = "action" /\ Pre[last.id].children # <<>>
  /\ Len(nodes[last.id].children) = 1
  /\ nodes[nodes[last.id].children[1].id].type = "end"

\* C13: every Branch node of the live graph has, among its stored edges, one
\* labelled "True" and one labelled "False".
C13_BranchCanonicalEdges ==
  \A k \in DOMAIN nodes : (Has(nodes, k) /\ nodes[k].type = "branch") =>
    (HasLabel(nodes[k].children, "True") /\ HasLabel(nodes[k].children, "False"))

\* a delete spliced two adopted edges over a branch's "True" slot, and the
\* "True" edge the branch has now is the one appended after the splice
C13_Witness ==
  /\ last.op = "delete" /\ last.applied
  /\ \E k \in DOMAIN nodes :
       /\ nodes[k].type = "branch"
       /\ Len(nodes[k].children) = 4
       /\ nodes[k].children[1].label = "True + True"
       /\ nodes[k].children[4] = Edge("True", NoId)

\* C14: for an edge sequence e, ensureBranchEdges(e) is e, edge for edge and in
\* order, followed by one unconnected edge for each of "True" and "False", in
\* that order, that no edge of e is labelled with, and by nothing else; and
\* ensureBranchEdges of that result is that result.
C14_EnsureBranchEdges ==
  [][/\ (ensure'.calls = 1) =>
          LET e == ensure.children
              out == ensure'.edges
              missing == SelectSeq(<<"True", "False">>, LAMBDA l : ~HasLabel(e, l))
          IN /\ Len(out) = Len(e) + Len(missing)
             /\ \A i \in 1..Len(e) : out[i] = e[i]
             /\ \A i \in 1..Len(missing) : out[Len(e) + i] = Edge(missing[i], NoId)
     /\ (ensure'.calls = 2) => ensure'.edges = ensure.edges]_vars

\* called twice on a connected "False" edge and a user-added edge: one "True"
\* edge was appended, by the first call
C14_Witness ==
  /\ ensure.calls = 2
  /\ ensure.children = <<Edge("False", "node-1"), Edge("Path 3", NoId)>>
  /\ ensure.edges = <<Edge("False", "node-1"), Edge("Path 3", NoId), Edge("True", NoId)>>

\* the graphs of the scenario: root -> A1, and root -> B1 with A1 on B1's
\* "True" edge
ScenarioA1 ==
  [k \in {rootId, "node-1"} |->
     IF k = rootId
     THEN [id |-> rootId, label |-> "Start", type |-> "action",
           children |-> <<Edge("Next", "node-1")>>]
     ELSE [id |-> "node-1", label |-> "Action", type |-> "action", children |-> <<>>]]

ScenarioB1 ==
  [k \in {rootId, "node-1", "node-2"} |->
     IF k = rootId
     THEN [id |-> rootId, label |-> "Start", type |-> "action",
           children |-> <<Edge("Next", "node-2")>>]
     ELSE IF k = "node-1"
     THEN [id |-> "node-1", label |-> "Action", type |-> "action", children |-> <<>>]
     ELSE [id |-> "node-2", label |-> "Branch", type |-> "branch",
           children |-> <<Edge("True", "node-1"), Edge("False", NoId)>>]]

\* C15: from the default graph, inserting an Action at the root gives
\* root -"Next"-> A1; inserting a Branch at the root then gives root -> B1 with
\* B1's "True" edge to A1 and its "False" edge unconnected; deleting B1 then
\* gives root -> A1 again, B1 out of the map and A1 in it.
C15_Scenario ==
  [][/\ (nodes = DefaultGraph /\ last'.op = "insert" /\ last'.id = rootId /\ last'.applied
          /\ nodes'["node-1"].type = "action") => nodes' = ScenarioA1
     /\ (nodes = ScenarioA1 /\ last'.op = "insert" /\ last'.id = rootId /\ last'.applied
          /\ nodes'["node-2"].type = "branch") => nodes' = ScenarioB1
     /\ (nodes = ScenarioB1 /\ last'.op = "delete" /\ last'.id = "node-2") =>
          /\ last'.applied
          /\ nodes'[rootId].children = <<Edge("Next", "node-1")>>
          /\ "node-2" \notin DOMAIN nodes'
          /\ nodes'["node-1"] = nodes["node-1"]]_vars

\* the three steps of the scenario were made one after the other
C15_Witness ==
  /\ last.op = "delete" /\ last.applied /\ last.id = "node-2"
  /\ historyIndex = 3
  /\ history = <<DefaultGraph, ScenarioA1, ScenarioB1, ScenarioA1>>
  /\ nodes = ScenarioA1

\* C16: addBranchPath on a Branch node with m stored edges appends one
\* unconnected edge labelled "Path {m+1}" ("Path 3" after the two canonical
\* edges), keeps the m edges and every other node, and is one history commit.
C16_AddBranchPath ==
  [][(last'.op = "addBranchPath" /\ last'.applied) =>
       LET B == last'.id
           m == Len(nodes[B].children)
       IN /\ nodes[B].type = "branch"
          /\ nodes'[B].children =
               Append(nodes[B].children, Edge("Path " \o ToString(m + 1), NoId))
          /\ (m = 2) => nodes'[B].children[3].label = "Path 3"
          /\ nodes'[B] = [nodes[B] EXCEPT !.children = nodes'[B].children]
          /\ DOMAIN nodes' = DOMAIN nodes
          /\ \A k \in (DOMAIN nodes) \ {B} : nodes'[k] = nodes[k]
          /\ history' = SubSeq(history, 1, historyIndex + 1) \o <<nodes'>>
          /\ historyIndex' = historyIndex + 1]_vars

\* a path was added to a branch whose two canonical edges were both connected
C16_Witness ==
  /\ last.op = "addBranchPath" /\ last.applied
  /\ Len(Pre[last.id].children) = 2
  /\ Cardinality(Targets(Pre, last.id)) = 2
  /\ Len(nodes[last.id].children) = 3
  /\ nodes[last.id].children[3] = Edge("Path 3", NoId)
  /\ Targets(nodes, last.id) = Targets(Pre, last.id)

\* C17: an insert under a Branch parent rewrites one slot of the parent's
\* normalized edges, the first one labelled branchLabel, or the first one when
\* branchLabel is null or no edge has it: the slot keeps its label and leads to
\* the new node, the new node has an edge to what the slot led to, and every
\* other slot keeps label, target and position.
C17_InsertUnderBranch ==
  (~crashed /\ CanClone(nodes)) =>
    \A P \in DOMAIN nodes : nodes[P].type = "branch" =>
      \A branchLabel \in RequestLabels(P), type \in NodeTypes :
        LET N == NodeKey(idCounter)
            old == ensureBranchEdges(nodes[P].children)
            after == addNodeUpdater(nodes, P, branchLabel, type, N).map
            new == after[P].children
            slot == IF branchLabel # NullLabel /\ HasLabel(old, branchLabel)
                    THEN CHOOSE i \in 1..Len(old) :
                           /\ old[i].label = branchLabel
                           /\ \A j \in 1..(i - 1) : old[j].label # branchLabel
                    ELSE 1
        IN /\ Len(new) = Len(old)
           /\ new[slot] = Edge(old[slot].label, N)
           /\ \A i \in (1..Len(old)) \ {slot} : new[i] = old[i]
           /\ IF old[slot].id # NoId
              THEN old[slot].id \in Targets(after, N)
              ELSE Targets(after, N) = {}

\* C18: a delete under a Branch parent of a node with no or one connected
\* edge leaves the slot that led to it in place under its label, unconnected
\* or leading to the adopted edge's target; the parent has as many edges as
\* before and its other slots are as they were.
C18_DeleteUnderBranchSimple ==
  [][(last'.op = "delete" /\ last'.applied) =>
       LET T == last'.id
       IN \A P \in ParentsOf(nodes, T) \cap Reach(nodes) :
            (nodes[P].type = "branch" /\ Len(Connected(nodes[T].children)) <= 1) =>
              LET old == nodes[P].children
                  new == nodes'[P].children
                  e == CHOOSE i \in 1..Len(old) : old[i].id = T
                  ad == Connected(nodes[T].children)
              IN /\ Len(new) = Len(old)
                 /\ new[e] = Edge(old[e].label, IF ad = <<>> THEN NoId ELSE ad[1].id)
                 /\ \A i \in (1..Len(old)) \ {e} : new[i] = old[i]]_vars

\* a node with one connected edge was deleted under a Branch parent, whose
\* slot now leads to what the node led to
C18_Witness ==
  /\ last.op = "delete" /\ last.applied
  /\ \E P \in ParentsOf(Pre, last.id) :
       /\ Pre[P].type = "branch"
       /\ Cardinality(Targets(Pre, last.id)) = 1
       /\ Targets(Pre, last.id) \subseteq Targets(nodes, P)
       /\ Len(nodes[P].children) = Len(Pre[P].children)
       /\ Cardinality(Targets(nodes, P)) = 2

\* C19: a delete that applies removes the target's key and no other; of the
\* remaining nodes only the target's parent changes, the nodes the target led
\* to included.
C19_DeleteFrame ==
  [][(last'.op = "delete" /\ last'.applied) =>
       LET T == last'.id
           changed == {k \in DOMAIN nodes' : nodes'[k] # nodes[k]}
       IN /\ T \in DOMAIN nodes
          /\ DOMAIN nodes' = (DOMAIN nodes) \ {T}
          /\ changed \subseteq ParentsOf(nodes, T)
          /\ Cardinality(changed) <= 1]_vars

\* a node below the root's child was deleted: the nodes it led to and the
\* root are as they were
C19_Witness ==
  /\ last.op = "delete" /\ last.applied
  /\ DOMAIN nodes = (DOMAIN Pre) \ {last.id}
  /\ Cardinality(Targets(Pre, last.id)) = 2
  /\ \A d \in Targets(Pre, last.id) : nodes[d] = Pre[d]
  /\ rootId \notin ParentsOf(Pre, last.id)
  /\ nodes[rootId] = Pre[rootId]

\* C20: updateLabel on a node of the map changes that node's label and
\* nothing else: not the key set, no node's kind or children, no other node's
\* label, not the history and not the cursor.
C20_UpdateLabelFrame ==
  [][(last'.op = "updateLabel" /\ Has(nodes, last'.id)) =>
       /\ DOMAIN nodes' = DOMAIN nodes
       /\ \A k \in DOMAIN nodes :
            IF Has(nodes, k)
            THEN /\ nodes'[k].id = nodes[k].id
                 /\ nodes'[k].type = nodes[k].type
                 /\ nodes'[k].children = nodes[k].children
                 /\ (k # last'.id) => nodes'[k].label = nodes[k].label
            ELSE nodes'[k] = nodes[k]
       /\ nodes'[last'.id].label \in EditLabels
       /\ history' = history
       /\ historyIndex' = historyIndex]_vars

\* the root was relabelled after two commits: its child keeps its label and
\* the history entry under the cursor still has the old one
C20_Witness ==
  /\ last.op = "updateLabel" /\ last.applied
  /\ nodes[rootId].label = "X"
  /\ historyIndex = 2 /\ Len(history) = 3
  /\ history[3][rootId].label = "Start"
  /\ \E k \in Targets(nodes, rootId) : nodes[k].label # "X"

\* C21: the cursor is an index of the history; undo at cursor 0 and redo at
\* the last index change nothing; otherwise undo moves the cursor down by one
\* and redo up by one, the history stays as it is, and the live graph equals
\* the history entry at the new cursor.
C21_UndoRedoCursor ==
  /\ [](0 <= historyIndex /\ historyIndex < Len(history))
  /\ [][/\ (last'.op = "undo") =>
             /\ history' = history
             /\ IF historyIndex = 0
                THEN nodes' = nodes /\ historyIndex' = historyIndex
                ELSE /\ historyIndex' = historyIndex - 1
                     /\ nodes' = history[historyIndex' + 1]
        /\ (last'.op = "redo") =>
             /\ history' = history
             /\ IF historyIndex = Len(history) - 1
                THEN nodes' = nodes /\ historyIndex' = historyIndex
                ELSE /\ historyIndex' = historyIndex + 1
                     /\ nodes' = history[historyIndex' + 1]]_vars

\* a redo from cursor 0 of a history of three entries, after a label edit
\* that the redo replaced with the entry's label
C21_Witness ==
  /\ last.op = "redo" /\ last.applied
  /\ historyIndex = 1 /\ Len(history) = 3
  /\ nodes = history[2]
  /\ history[2] # history[3]

\* C22: an applied insert hands out an id whose numeric suffix is greater than
\* the suffix of every node created earlier in the session (the nodes of every
\* history entry, the undone ones included, were created earlier), and that is
\* no key of the current map.
C22_IdsNeverReused ==
  [][(last'.op = "insert" /\ last'.applied) =>
       /\ NodeKey(idCounter) \in DOMAIN nodes'
       /\ NodeKey(idCounter) \notin DOMAIN nodes
       /\ \A i \in 1..Len(history) : \A k \in DOMAIN history[i] :
            KeyNum(k) < idCounter]_vars

\* C23: whatever the operation, made with the cursor at c, the history
\* entries at the indices up to c are afterwards what they were before.
C23_HistoryImmutable ==
  [][/\ Len(history') >= historyIndex + 1
     /\ \A i \in 1..(historyIndex + 1) : history'[i] = history[i]]_vars

\* a commit at cursor 0, after an undo and a label edit, dropped one entry:
\* the entry at 0 has the old label, the live graph and the new entry the
\* edited one
C23_Witness ==
  /\ last.op \in TrackedOps /\ last.applied
  /\ last.dropped = 1
  /\ historyIndex = 1 /\ Len(history) = 2
  /\ history[1][rootId].label = "Start"
  /\ history[2][rootId].label = "X"
  /\ nodes[rootId].label = "X"

\* the ids reachable from k along one or more connected edges
Descendants(map, k) == ReachN(map, Targets(map, k), Cardinality(DOMAIN map))

\* the edges of the map that lead to t, as <<node, position>>
EdgesTo(map, t) ==
  {pe \in UNION {{<<p, i>> : i \in 1..Len(map[p].children)} :
                   p \in {q \in DOMAIN map : Has(map, q)}} :
     map[pe[1]].children[pe[2]].id = t}

\* no node is its own descendant, no id is the target of two edges, and no
\* edge leads to the root
IsForest(map) ==
  /\ \A k \in DOMAIN map : k \notin Descendants(map, k)
  /\ \A k \in DOMAIN map : Cardinality(EdgesTo(map, k)) <= 1
  /\ EdgesTo(map, rootId) = {}

\* C24: the live graph is a forest (no cycle along connected edges, at most
\* one edge into each node, none into the root), and findParent from the root
\* returns, for every node some edge leads to, that one edge.
C24_Forest ==
  /\ IsForest(nodes)
  /\ \A t \in DOMAIN nodes : \A pe \in EdgesTo(nodes, t) :
       findParent(rootId, t, nodes) = [parentId |-> pe[1], edgeIndex |-> pe[2]]

\* every connected edge of the map leads to a node of the map
NoDangling(map) ==
  \A k \in DOMAIN map : \A t \in Targets(map, k) : Has(map, t)

\* C25: in the live graph and in every history entry, the target of each
\* connected edge is a key of the same map.
C25_NoDanglingEdge ==
  /\ NoDangling(nodes)
  /\ \A i \in 1..Len(history) : NoDangling(history[i])

\* a node between the root and its successor was deleted: the root leads to
\* the successor, and the history still has the graph with the deleted node
C25_Witness ==
  /\ last.op = "delete" /\ last.applied
  /\ last.id \notin DOMAIN nodes
  /\ last.id \in DOMAIN history[historyIndex]
  /\ ParentsOf(Pre, last.id) = {rootId}
  /\ Targets(Pre, last.id) # {}
  /\ Targets(nodes, rootId) \subseteq Targets(Pre, last.id)
  /\ Targets(nodes, rootId) # {}

\* C26: the live graph and the history entry at the cursor have the same
\* node ids, and each node has the same kind and the same children in both;
\* only labels may differ.
C26_LiveMatchesCursor ==
  LET entry == history[historyIndex + 1]
  IN /\ DOMAIN nodes = DOMAIN entry
     /\ \A k \in DOMAIN nodes : Has(nodes, k) =>
          /\ nodes[k].id = entry[k].id
          /\ nodes[k].type = entry[k].type
          /\ nodes[k].children = entry[k].children

\* C27: for every Branch node P of the live graph and every position i of its
\* normalized edges, the insert the view asks for on that slot (addNode with
\* the slot's label as branchLabel) leaves the new node as the target of the
\* edge at position i.
C27_InsertAtSlot ==
  (~crashed /\ CanClone(nodes)) =>
    \A P \in DOMAIN nodes : nodes[P].type = "branch" =>
      LET edges == ensureBranchEdges(nodes[P].children)
      IN \A i \in 1..Len(edges), type \in NodeTypes :
           LET N == NodeKey(idCounter)
               after == addNodeUpdater(nodes, P, edges[i].label, type, N).map
           IN after[P].children[i].id = N

====
